---- MODULE Spec2Model ----
(***************************************************************************)
(* Model of english-test-app (src/main.py): the mock question generator,   *)
(* the font provisioner, the PDF renderer and the Streamlit main script.   *)
(*                                                                         *)
(* Lengths are millimetres (the FPDF default unit).  Python floats are     *)
(* IEEE-754 doubles, modelled as a 53-bit significand (a sequence of bits, *)
(* most significant first) and the exponent of its last bit.               *)
(***************************************************************************)
EXTENDS Integers, Sequences, FiniteSets, TLC

VARIABLES
    gen,        \* generate_mock_data under test: its arguments and result
    fs,         \* file system: does arial.ttf / the system font exist
    pdf,        \* the PDF object of the create_pdf call in progress
    records,    \* the argument `questions` of the create_pdf call
    sidebar,    \* the widget values of the sidebar
    session,    \* st.session_state
    run,        \* the call of create_pdf or the run of main() in progress
    prov        \* history of the calls of download_font_if_missing

vars == <<gen, fs, pdf, records, sidebar, session, run, prov>>

-----------------------------------------------------------------------------
(* Bounds *)

\* largest total_questions passed to generate_mock_data on its own
MaxTotal == 100
\* number of grade labels the model offers ("Lớp 1" .. ; the sidebar has 10)
MaxGrade == 1
\* how many steps of 5 the model moves the essay slider away from its default
MaxSliderMove == 1
\* calls of download_font_if_missing counted exactly; later calls count as this
MaxCalls == 3

-----------------------------------------------------------------------------
(* IEEE-754 double arithmetic, as far as line 54 uses it *)

MantBits == 53

\* the 8 binary digits of a number below 256
Byte(d) == << (d \div 128) % 2, (d \div 64) % 2, (d \div 32) % 2, (d \div 16) % 2,
              (d \div 8) % 2, (d \div 4) % 2, (d \div 2) % 2, d % 2 >>

\* the number whose binary digits are b[i], ..., b[i+7]
ByteVal(b, i) ==
    128 * b[i] + 64 * b[i+1] + 32 * b[i+2] + 16 * b[i+3]
    + 8 * b[i+4] + 4 * b[i+5] + 2 * b[i+6] + b[i+7]

\* the bits of a sequence of bytes, most significant first
BytesToBits(ds) == [i \in 1..(8 * Len(ds)) |-> Byte(ds[((i - 1) \div 8) + 1])[((i - 1) % 8) + 1]]

\* a bit sequence without its leading zeros
StripZeros(b) ==
    IF \A i \in 1..Len(b) : b[i] = 0 THEN <<>>
    ELSE LET k == CHOOSE i \in 1..Len(b) : b[i] = 1 /\ \A j \in 1..(i - 1) : b[j] = 0
         IN  SubSeq(b, k, Len(b))

RECURSIVE IntBits(_)
\* binary digits of a natural number, no leading zero (<<>> for 0)
IntBits(n) == IF n = 0 THEN <<>> ELSE Append(IntBits(n \div 2), n % 2)

RECURSIVE BitsToInt(_)
BitsToInt(b) ==
    IF b = <<>> THEN 0
    ELSE 2 * BitsToInt(SubSeq(b, 1, Len(b) - 1)) + b[Len(b)]

\* b + 1 on a bit sequence; the result is one bit longer when b is all ones
IncBits(b) ==
    IF \A i \in 1..Len(b) : b[i] = 1
    THEN <<1>> \o [i \in 1..Len(b) |-> 0]
    ELSE LET k == CHOOSE i \in 1..Len(b) : b[i] = 0 /\ \A j \in (i + 1)..Len(b) : b[j] = 1
         IN  [i \in 1..Len(b) |-> IF i < k THEN b[i] ELSE IF i = k THEN 1 ELSE 0]

FZero == [m |-> <<>>, e |-> 0]

\* round-to-nearest-even of the significand m (exactly MantBits long) whose
\* discarded tail is above, equal to, or below half a unit in the last place
RoundNearestEven(m, e, tail) ==
    LET up == tail = "above" \/ (tail = "half" /\ m[MantBits] = 1)
        inc == IncBits(m)
    IN  IF ~up THEN [m |-> m, e |-> e]
        ELSE IF Len(inc) = MantBits THEN [m |-> inc, e |-> e]
        ELSE [m |-> SubSeq(inc, 1, MantBits), e |-> e + 1]

\* the double nearest to b * 2^e (+ something below 2^e when sticky), for a bit
\* sequence b of at least MantBits bits starting with 1
RoundBits(b, e, sticky) ==
    LET d == Len(b) - MantBits
        rest == sticky \/ \E i \in (MantBits + 2)..Len(b) : b[i] = 1
        tail == IF d = 0 THEN (IF sticky THEN "below" ELSE "exact")
                ELSE IF b[MantBits + 1] = 1
                     THEN (IF rest THEN "above" ELSE "half")
                     ELSE (IF rest THEN "below" ELSE "exact")
    IN  RoundNearestEven(SubSeq(b, 1, MantBits), e + d, tail)

FracBytes == 8

RECURSIVE DivSteps(_, _, _)
\* long division in base 256: the next n digits of r / den and the remainder
DivSteps(r, den, n) ==
    IF n = 0 THEN [d |-> <<>>, r |-> r]
    ELSE LET t == 256 * r
             rest == DivSteps(t % den, den, n - 1)
         IN  [d |-> <<t \div den>> \o rest.d, r |-> rest.r]

\* the double nearest to num / den (naturals, den < 2^23, 1/128 <= num/den < 2)
FloatDiv(num, den) ==
    IF num = 0 THEN FZero
    ELSE LET frac == DivSteps(num % den, den, FracBytes)
             bits == StripZeros(IntBits(num \div den) \o BytesToBits(frac.d))
         IN  RoundBits(bits, 0 - 8 * FracBytes, frac.r # 0)

RECURSIVE MulSteps(_, _, _, _)
\* b[1..8*i] (bits, a whole number of bytes) times n plus carry, as bytes
MulSteps(b, i, n, carry) ==
    IF i = 0 THEN BytesToBits(<< (carry \div 65536) % 256, (carry \div 256) % 256,
                                 carry % 256 >>)
    ELSE LET t == ByteVal(b, 8 * i - 7) * n + carry
         IN  MulSteps(b, i - 1, n, t \div 256) \o Byte(t % 256)

\* the double nearest to n * f (n a natural below 2^16, converted exactly)
FloatMul(n, f) ==
    IF n = 0 \/ f.m = <<>> THEN FZero
    ELSE LET padded == <<0, 0, 0>> \o f.m
             p == StripZeros(MulSteps(padded, 7, n, 0))
         IN  RoundBits(p, f.e, FALSE)

\* int(f) for a non-negative double below 2^31: truncation
FloatToInt(f) ==
    IF f.m = <<>> THEN 0
    ELSE LET k == MantBits + f.e
         IN  IF k <= 0 THEN 0
             ELSE IF k <= MantBits THEN BitsToInt(SubSeq(f.m, 1, k))
             ELSE BitsToInt(f.m \o [i \in 1..(k - MantBits) |-> 0])

-----------------------------------------------------------------------------
(* generate_mock_data *)

\* Python's Optional: None is the empty set, a value x the singleton {x}
None == {}
Some(x) == {x}
The(s) == CHOOSE x \in s : TRUE

grammar_q == << "She _____ to school every day.",
                "They _____ playing football now.",
                "_____ you like coffee?",
                "I have _____ seen that movie.",
                "He is the _____ student in class." >>

options_pool == << <<"go", "goes", "going", "gone">>,
                   <<"is", "am", "are", "be">>,
                   <<"Do", "Does", "Did", "Done">>,
                   <<"never", "ever", "fail", "not">>,
                   <<"good", "better", "best", "well">> >>

essay_prompts == << "Write a short paragraph about your hobby.",
                    "Describe your best friend.",
                    "What did you do last summer?",
                    "Why is learning English important?",
                    "Describe your dream house." >>

\* the f-string "Question {n}: {prompt} ({grade} Level)", kept as its parts
QText(n, prompt, grade) == <<"Question", n, prompt, grade, "Level">>

num_essay_of(total_questions, essay_percentage) ==
    FloatToInt(FloatMul(total_questions, FloatDiv(essay_percentage, 100)))

\* variant of MCQuestion that leaves out the answer key
MCQuestionNoAnswer(i, grade) ==
    LET q_idx == i % Len(grammar_q)
    IN  [id |-> i + 1,
         text |-> QText(i + 1, grammar_q[q_idx + 1], grade),
         q_type |-> "MC",
         options |-> Some(options_pool[q_idx + 1]),
         correct_answer |-> None]

\* the record appended by iteration i (0-based) of the multiple-choice loop
MCQuestion(i, grade) ==
    LET q_idx == i % Len(grammar_q)
        opts  == options_pool[q_idx + 1]
    IN  [id |-> i + 1,
         text |-> QText(i + 1, grammar_q[q_idx + 1], grade),
         q_type |-> "MC",
         options |-> Some(opts),
         correct_answer |-> Some(opts[2])]

\* variant of EssayQuestion that numbers from num_mc + i
EssayQuestionOffByOne(i, num_mc, grade) ==
    LET idx == num_mc + i
    IN  [id |-> idx,
         text |-> QText(idx, essay_prompts[(i % Len(essay_prompts)) + 1], grade),
         q_type |-> "Essay",
         options |-> None,
         correct_answer |-> None]

\* the record appended by iteration i (0-based) of the essay loop
EssayQuestion(i, num_mc, grade) ==
    LET idx == num_mc + i + 1
    IN  [id |-> idx,
         text |-> QText(idx, essay_prompts[(i % Len(essay_prompts)) + 1], grade),
         q_type |-> "Essay",
         options |-> None,
         correct_answer |-> None]

generate_mock_data(grade, total_questions, essay_percentage) ==
    LET num_essay == num_essay_of(total_questions, essay_percentage)
        num_mc    == total_questions - num_essay
    IN  [i \in 1..num_mc |-> MCQuestion(i - 1, grade)]
        \o [i \in 1..num_essay |-> EssayQuestion(i - 1, num_mc, grade)]

-----------------------------------------------------------------------------
(* download_font_if_missing *)

\* variant of download_font_if_missing without the early return of lines 28-29
download_font_always(f, copy_ok, net_ok) ==
    IF f.sysfont /\ copy_ok
    THEN [fs |-> [f EXCEPT !.cache = TRUE], copied |-> TRUE, fetch |-> <<>>,
          wrote |-> TRUE, msgs |-> <<>>]
    ELSE LET warn == IF f.sysfont THEN <<"warning_copy_font">> ELSE <<>>
         IN  IF net_ok
             THEN [fs |-> [f EXCEPT !.cache = TRUE], copied |-> f.sysfont,
                   fetch |-> <<"ok">>, wrote |-> TRUE, msgs |-> warn]
             ELSE [fs |-> f, copied |-> f.sysfont, fetch |-> <<"fail">>,
                   wrote |-> FALSE, msgs |-> warn \o <<"error_download_font">>]

\* copy_ok: shutil.copy succeeds; net_ok: the GET answers 2xx within the timeout.
\* Both are the environment's choice.  The result carries the new file system,
\* what the call did, and the messages it showed.
download_font_if_missing(f, copy_ok, net_ok) ==
    IF f.cache
    THEN [fs |-> f, copied |-> FALSE, fetch |-> <<>>, wrote |-> FALSE, msgs |-> <<>>]
    ELSE IF f.sysfont /\ copy_ok
    THEN [fs |-> [f EXCEPT !.cache = TRUE], copied |-> TRUE, fetch |-> <<>>,
          wrote |-> TRUE, msgs |-> <<>>]
    ELSE LET warn == IF f.sysfont THEN <<"warning_copy_font">> ELSE <<>>
         IN  IF net_ok
             THEN [fs |-> [f EXCEPT !.cache = TRUE], copied |-> f.sysfont,
                   fetch |-> <<"ok">>, wrote |-> TRUE, msgs |-> warn]
             ELSE [fs |-> f, copied |-> f.sysfont, fetch |-> <<"fail">>,
                   wrote |-> FALSE, msgs |-> warn \o <<"error_download_font">>]

-----------------------------------------------------------------------------
(* FPDF, as far as create_pdf and PDF.footer use it (A4 portrait, mm) *)

PageHeight == 297
TopMargin == 10
PageBreakTrigger == 277
FooterOffset == 15
NearBottom == 250
LineH == 6
TitleH == 10
TitleGap == 5
OptionsGap == 2
EssaySpace == 30
EssayGap == 5

font_family_name == "TargetFont"

NewPDF ==
    [state |-> "Init", fonts |-> {}, font |-> "none", page |-> 0, y |-> 0,
     lasth |-> 0, footers |-> <<>>, placed |-> <<>>]

\* PDF.footer: moves to 15 mm above the bottom edge and prints the footer line;
\* one entry per invocation, the family set_font could select
footer(p) ==
    [p EXCEPT !.y = PageHeight - FooterOffset,
              !.footers = Append(@, IF font_family_name \in p.fonts
                                    THEN font_family_name ELSE "Helvetica")]

\* FPDF.add_page: closes the open page (footer), opens the next at the top margin
add_page(p) ==
    LET q == IF p.page > 0 THEN footer(p) ELSE p
    IN  [q EXCEPT !.page = p.page + 1, !.y = TopMargin, !.state = "Page"]

\* variant of add_font that registers the file under another family name
add_font_other_family(p) ==
    [p EXCEPT !.fonts = @ \cup {"Arial"}, !.state = "FontRegistered"]

\* FPDF.add_font(font_family_name, "", FONT_FILENAME) on an existing file
add_font(p) ==
    [p EXCEPT !.fonts = @ \cup {font_family_name}, !.state = "FontRegistered"]

set_font(p, family) == [p EXCEPT !.font = family]

\* automatic page break taken by cell/multi_cell before a line that would cross
\* the bottom margin
AutoBreak(p, h) == IF p.y + h > PageBreakTrigger THEN add_page(p) ELSE p

\* FPDF.cell(..., new_y="NEXT") and one line of FPDF.multi_cell
cell(p, h) ==
    LET q == AutoBreak(p, h) IN [q EXCEPT !.y = q.y + h, !.lasth = h]

RECURSIVE multi_cell(_, _, _)
multi_cell(p, h, lines) ==
    IF lines = 0 THEN p ELSE multi_cell(cell(p, h), h, lines - 1)

ln(p, h) == [p EXCEPT !.y = p.y + h]

\* FPDF.ln() without argument: the height of the last printed cell
ln_default(p) == ln(p, p.lasth)

\* FPDF.output: closes the last page (footer) and serialises
output(p) ==
    LET q == footer(IF p.page = 0 THEN add_page(p) ELSE p)
    IN  [q EXCEPT !.state = "Finalized"]

-----------------------------------------------------------------------------
(* create_pdf *)

\* wrapped lines of a question text / of an options line: every generated text
\* (at most 83 characters at 11pt) fits the 190 mm line
TextLines(q) == 1
OptionLines(q) == 1

\* lines 134-143: first page, title, duration line, gap
TitleBlock(p) ==
    LET p1 == set_font(add_page(p), font_family_name)
        p2 == cell(p1, TitleH)
        p3 == cell(set_font(p2, font_family_name), TitleH)
    IN  set_font(ln(p3, TitleGap), font_family_name)

\* lines 159-173: the options line of a multiple-choice question
OptionsBlock(p, q) ==
    LET p3 == ln_default(p)
        p4 == IF p3.y > NearBottom
              THEN set_font(add_page(p3), font_family_name) ELSE p3
        p5 == multi_cell(p4, LineH, OptionLines(q))
    IN  [pdf |-> ln(p5, OptionsGap),
         sub_page |-> AutoBreak(p4, LineH).page,
         sub_cursor |-> p3.y]

\* lines 174-177: blank space and writing line of an essay question
EssayBlock(p, q) ==
    LET p3 == ln(p, EssaySpace)
    IN  [pdf |-> ln(p3, EssayGap), sub_page |-> p3.page, sub_cursor |-> p.y]

\* variant of RenderQuestion without the page-break check of lines 149-150
RenderQuestionNoBreak(p, q) ==
    LET p1f == set_font(p, font_family_name)
        p2 == multi_cell(p1f, LineH, TextLines(q))
        sub == IF q.q_type = "MC" THEN OptionsBlock(p2, q) ELSE EssayBlock(p2, q)
    IN  [sub.pdf EXCEPT !.placed =
            Append(@, [id |-> q.id, q_type |-> q.q_type,
                       cursor |-> p.y,
                       text_page |-> AutoBreak(p1f, LineH).page,
                       sub_cursor |-> sub.sub_cursor,
                       sub_page |-> sub.sub_page,
                       end_page |-> sub.pdf.page])]

\* lines 145-177: one iteration of the loop over the questions
RenderQuestion(p, q) ==
    LET p1 == IF p.y > NearBottom THEN add_page(p) ELSE p
        p1f == set_font(p1, font_family_name)
        p2 == multi_cell(p1f, LineH, TextLines(q))
        sub == IF q.q_type = "MC" THEN OptionsBlock(p2, q) ELSE EssayBlock(p2, q)
    IN  [sub.pdf EXCEPT !.placed =
            Append(@, [id |-> q.id, q_type |-> q.q_type,
                       cursor |-> p.y,
                       text_page |-> AutoBreak(p1f, LineH).page,
                       sub_cursor |-> sub.sub_cursor,
                       sub_page |-> sub.sub_page,
                       end_page |-> sub.pdf.page])]

RECURSIVE RenderAll(_, _)
\* the whole loop of lines 145-177 on a document without question blocks: the
\* next question is the one after those already placed
RenderAll(p, qs) ==
    IF Len(p.placed) >= Len(qs) THEN p
    ELSE RenderAll(RenderQuestion(p, qs[Len(p.placed) + 1]), qs)

\* variant of RegisterFont that carries on after a failed registration
RegisterFontIgnoreError(p, f, exc) ==
    IF f.cache
    THEN [pdf |-> add_font(p), ret |-> "running", msgs |-> <<>>]
    ELSE [pdf |-> p, ret |-> "running", msgs |-> <<"error_font_file">>]

\* lines 126-132: register the font; exc is the exception FPDF raises for a
\* missing file (RuntimeError in older releases, FileNotFoundError in newer)
RegisterFont(p, f, exc) ==
    IF f.cache
    THEN [pdf |-> add_font(p), ret |-> "running", msgs |-> <<>>]
    ELSE IF exc = "RuntimeError"
    THEN [pdf |-> p, ret |-> "None", msgs |-> <<"error_font_file">>]
    ELSE [pdf |-> p, ret |-> "raised", msgs |-> <<>>]

AddFontErrors == {"RuntimeError", "OtherError"}

-----------------------------------------------------------------------------
(* Sidebar configuration (lines 193-212) *)

\* "15 phút (30 câu)", "60 phút (50 câu)", "90 phút (70 câu)"
duration_options == [d15 |-> 30, d60 |-> 50, d90 |-> 70]
DurationLabels == DOMAIN duration_options

\* "Trắc nghiệm", "Tự luận", "Kết hợp"
TestTypes == {"TracNghiem", "TuLuan", "KetHop"}

SliderDefault == 30
SliderStep == 5
SliderPositions == {v \in 0..100 : v % SliderStep = 0}

\* lines 205-211
essay_percent_of(sb) ==
    IF sb.test_type = "TracNghiem" THEN 0
    ELSE IF sb.test_type = "TuLuan" THEN 100
    ELSE sb.slider

-----------------------------------------------------------------------------
(* State shared by the specifications *)

NoProv == [calls |-> 0, writes |-> 0, writer |-> 0,
           last |-> [found |-> FALSE, copied |-> FALSE, fetched |-> FALSE, wrote |-> FALSE]]
NoSidebar == [grade |-> 1, duration |-> "d15", test_type |-> "TracNghiem",
              slider |-> SliderDefault]
NoSession == [generated_data |-> None, config |-> None]
NoGen == [phase |-> "none"]
NoFs == [cache |-> FALSE, sysfont |-> FALSE]

\* a run of the script (or a call of create_pdf) that has not done anything yet
NewRun(pc, button) ==
    [pc |-> pc, button |-> button, qi |-> 1, ret |-> "not_called", msgs |-> <<>>,
     fetches |-> <<>>, score |-> None, download |-> FALSE]

\* bookkeeping of one call of download_font_if_missing on file system f with
\* result r
RecordCall(pv, f, r) ==
    LET n == IF pv.calls < MaxCalls THEN pv.calls + 1 ELSE MaxCalls
    IN  [calls |-> n,
         writes |-> pv.writes + (IF r.wrote THEN 1 ELSE 0),
         writer |-> IF r.wrote /\ pv.writer = 0 THEN n ELSE pv.writer,
         last |-> [found |-> f.cache, copied |-> r.copied,
                   fetched |-> r.fetch # <<>>, wrote |-> r.wrote]]

-----------------------------------------------------------------------------
(* Specification SpecGen: generate_mock_data on every configuration *)

InitGen ==
    /\ gen \in [phase : {"call"}, grade : 1..MaxGrade, total : 1..MaxTotal,
                pct : 0..100, questions : {<<>>}]
    /\ fs = NoFs /\ pdf = NewPDF /\ records = <<>> /\ sidebar = NoSidebar
    /\ session = NoSession /\ run = NewRun("none", FALSE) /\ prov = NoProv

Generate ==
    /\ gen.phase = "call"
    /\ gen' = [gen EXCEPT !.phase = "done",
                          !.questions = generate_mock_data(gen.grade, gen.total, gen.pct)]
    /\ UNCHANGED <<fs, pdf, records, sidebar, session, run, prov>>

NextGen == Generate

SpecGen == InitGen /\ [][NextGen]_vars

-----------------------------------------------------------------------------
(* Specification SpecPdf: one call of create_pdf, one loop iteration a step *)

\* the record lists main can hand to create_pdf
PdfInputs ==
    {generate_mock_data(g, duration_options[d], pct) :
        g \in 1..MaxGrade, d \in DurationLabels, pct \in SliderPositions}

InitPdf ==
    /\ records \in PdfInputs
    /\ fs \in [cache : BOOLEAN, sysfont : BOOLEAN]
    /\ pdf = NewPDF
    /\ run = NewRun("pdf_font", FALSE)
    /\ gen = NoGen /\ sidebar = NoSidebar /\ session = NoSession /\ prov = NoProv

\* lines 123-124: download_font_if_missing is called only when the file is absent
PdfEnsureFont ==
    /\ run.pc = "pdf_font"
    /\ IF fs.cache
       THEN /\ run' = [run EXCEPT !.pc = "pdf_add_font"]
            /\ UNCHANGED <<fs, prov>>
       ELSE \E copy_ok \in BOOLEAN, net_ok \in BOOLEAN :
               LET r == download_font_if_missing(fs, copy_ok, net_ok)
               IN  /\ fs' = r.fs
                   /\ prov' = RecordCall(prov, fs, r)
                   /\ run' = [run EXCEPT !.pc = "pdf_add_font", !.msgs = @ \o r.msgs,
                                         !.fetches = @ \o r.fetch]
    /\ UNCHANGED <<gen, pdf, records, sidebar, session>>

\* lines 126-132
PdfAddFont ==
    /\ run.pc = "pdf_add_font"
    /\ \E exc \in AddFontErrors :
          LET r == RegisterFont(pdf, fs, exc)
          IN  /\ pdf' = r.pdf
              /\ run' = [run EXCEPT !.pc = IF r.ret = "running" THEN "title" ELSE "done",
                                    !.ret = r.ret, !.msgs = @ \o r.msgs]
    /\ UNCHANGED <<gen, fs, records, sidebar, session, prov>>

\* lines 134-143
PdfTitle ==
    /\ run.pc = "title"
    /\ pdf' = TitleBlock(pdf)
    /\ run' = [run EXCEPT !.pc = "questions"]
    /\ UNCHANGED <<gen, fs, records, sidebar, session, prov>>

\* lines 145-177, one iteration
PdfQuestion ==
    /\ run.pc = "questions"
    /\ run.qi <= Len(records)
    /\ pdf' = RenderQuestion(pdf, records[run.qi])
    /\ run' = [run EXCEPT !.qi = @ + 1]
    /\ UNCHANGED <<gen, fs, records, sidebar, session, prov>>

\* line 179
PdfOutput ==
    /\ run.pc = "questions"
    /\ run.qi > Len(records)
    /\ pdf' = output(pdf)
    /\ run' = [run EXCEPT !.pc = "done", !.ret = "bytes"]
    /\ UNCHANGED <<gen, fs, records, sidebar, session, prov>>

NextPdf == PdfEnsureFont \/ PdfAddFont \/ PdfTitle \/ PdfQuestion \/ PdfOutput

SpecPdf == InitPdf /\ [][NextPdf]_vars

-----------------------------------------------------------------------------
(* Specification SpecApp: the Streamlit script main(), rerun on every user  *)
(* interaction; create_pdf from add_font to output is one step              *)

\* slider positions the model's user moves to
SliderChoices ==
    {v \in SliderPositions :
        v >= SliderDefault - SliderStep * MaxSliderMove
        /\ v <= SliderDefault + SliderStep * MaxSliderMove}

\* the sidebar after the user changed one widget; the slider exists only in
\* mode "Kết hợp" and starts at its default when it appears
SidebarChoices(sb) ==
    {[sb EXCEPT !.grade = g] : g \in (1..MaxGrade) \ {sb.grade}}
    \cup {[sb EXCEPT !.duration = d] : d \in DurationLabels \ {sb.duration}}
    \cup {[sb EXCEPT !.test_type = t, !.slider = SliderDefault] :
             t \in TestTypes \ {sb.test_type}}
    \cup {[sb EXCEPT !.slider = v] :
             v \in IF sb.test_type = "KetHop" THEN SliderChoices \ {sb.slider} ELSE {}}

\* variant of ButtonHandler that stores the data and leaves the config as it was
ButtonHandlerDataOnly(sb, sess) ==
    [sess EXCEPT !.generated_data =
        Some(generate_mock_data(sb.grade, duration_options[sb.duration],
                                essay_percent_of(sb)))]

\* lines 216-222: the session state after the generate button was pressed
ButtonHandler(sb, sess) ==
    LET num_questions == duration_options[sb.duration]
    IN  [generated_data |->
             Some(generate_mock_data(sb.grade, num_questions, essay_percent_of(sb))),
         config |-> Some([grade |-> sb.grade, duration |-> sb.duration,
                          count |-> num_questions])]

InitApp ==
    /\ fs \in [cache : {FALSE}, sysfont : BOOLEAN]
    /\ sidebar = NoSidebar
    /\ session = NoSession
    /\ run = NewRun("startup", FALSE)
    /\ pdf = NewPDF /\ records = <<>> /\ prov = NoProv /\ gen = NoGen

\* the user changes a sidebar widget: the script reruns
ChangeSidebar ==
    /\ run.pc = "idle"
    /\ \E sb \in SidebarChoices(sidebar) : sidebar' = sb
    /\ run' = NewRun("startup", FALSE)
    /\ pdf' = NewPDF /\ records' = <<>>
    /\ UNCHANGED <<gen, fs, session, prov>>

\* the user presses "Tạo đề thi": the script reruns with the button set
PressGenerate ==
    /\ run.pc = "idle"
    /\ run' = NewRun("startup", TRUE)
    /\ pdf' = NewPDF /\ records' = <<>>
    /\ UNCHANGED <<gen, fs, sidebar, session, prov>>

\* line 188
MainStartupFont ==
    /\ run.pc = "startup"
    /\ \E copy_ok \in BOOLEAN, net_ok \in BOOLEAN :
          LET r == download_font_if_missing(fs, copy_ok, net_ok)
          IN  /\ fs' = r.fs
              /\ prov' = RecordCall(prov, fs, r)
              /\ run' = [run EXCEPT !.pc = "button", !.msgs = @ \o r.msgs,
                                    !.fetches = @ \o r.fetch]
    /\ UNCHANGED <<gen, pdf, records, sidebar, session>>

\* lines 214-223
MainButton ==
    /\ run.pc = "button"
    /\ IF run.button
       THEN /\ session' = ButtonHandler(sidebar, session)
            /\ run' = [run EXCEPT !.pc = "display", !.msgs = Append(@, "success")]
       ELSE /\ run' = [run EXCEPT !.pc = "display"]
            /\ UNCHANGED session
    /\ UNCHANGED <<gen, fs, pdf, records, sidebar, prov>>

\* lines 226-249: preview and the arguments of create_pdf; a missing 'config'
\* key raises KeyError, which ends the run
MainDisplay ==
    /\ run.pc = "display"
    /\ IF session.generated_data = None
       THEN /\ run' = [run EXCEPT !.pc = "idle"]
            /\ UNCHANGED records
       ELSE IF session.config = None
       THEN /\ run' = [run EXCEPT !.pc = "idle", !.msgs = Append(@, "exception")]
            /\ UNCHANGED records
       ELSE /\ run' = [run EXCEPT !.pc = "pdf_font",
                                  !.score = Some(<<100, The(session.config).count>>)]
            /\ records' = The(session.generated_data)
    /\ UNCHANGED <<gen, fs, pdf, sidebar, session, prov>>

\* lines 126-179 in one step
MainCreatePdf ==
    /\ run.pc = "pdf_add_font"
    /\ \E exc \in AddFontErrors :
          LET r == RegisterFont(pdf, fs, exc)
          IN  IF r.ret = "running"
              THEN /\ pdf' = output(RenderAll(TitleBlock(r.pdf), records))
                   /\ run' = [run EXCEPT !.pc = "download", !.ret = "bytes"]
              ELSE IF r.ret = "None"
              THEN /\ pdf' = r.pdf
                   /\ run' = [run EXCEPT !.pc = "download", !.ret = "None",
                                         !.msgs = @ \o r.msgs]
              ELSE /\ pdf' = r.pdf
                   /\ run' = [run EXCEPT !.pc = "idle", !.ret = "raised",
                                         !.msgs = Append(@, "exception")]
    /\ UNCHANGED <<gen, fs, records, sidebar, session, prov>>

\* lines 251-257
MainDownload ==
    /\ run.pc = "download"
    /\ run' = [run EXCEPT !.pc = "idle", !.download = (run.ret = "bytes")]
    /\ UNCHANGED <<gen, fs, pdf, records, sidebar, session, prov>>

NextApp ==
    \/ ChangeSidebar \/ PressGenerate \/ MainStartupFont \/ MainButton
    \/ MainDisplay \/ PdfEnsureFont \/ MainCreatePdf \/ MainDownload

SpecApp == InitApp /\ [][NextApp]_vars

-----------------------------------------------------------------------------
(* Properties of generate_mock_data (SpecGen) *)

CountType(qs, t) == Cardinality({i \in 1..Len(qs) : qs[i].q_type = t})

\* C1: for every total and pct the returned list holds floor(total*pct/100)
\* Essay records and total - that many MC records, the two counts adding up to
\* total with a non-negative MC count.
C1_Counts ==
    gen.phase = "done" =>
        LET essayCount == CountType(gen.questions, "Essay")
            mcCount == CountType(gen.questions, "MC")
        IN  /\ essayCount = (gen.total * gen.pct) \div 100
            /\ mcCount = gen.total - essayCount
            /\ mcCount + essayCount = gen.total
            /\ mcCount >= 0

\* C2: the ids, read in list order, are 1, 2, ..., total, and every MC record
\* comes before every Essay record.
C2_Ids ==
    gen.phase = "done" =>
        /\ Len(gen.questions) = gen.total
        /\ \A i \in 1..Len(gen.questions) : gen.questions[i].id = i
        /\ \A i, j \in 1..Len(gen.questions) :
              (gen.questions[i].q_type = "MC" /\ gen.questions[j].q_type = "Essay") => i < j

C2_Witness ==
    /\ gen.phase = "done" /\ gen.total = 70 /\ gen.pct = 30
    /\ gen.questions[49].q_type = "MC" /\ gen.questions[49].id = 49
    /\ gen.questions[50].q_type = "Essay" /\ gen.questions[50].id = 50
    /\ gen.questions[70].id = 70

\* C3: every generated MC record has exactly 4 options and a non-empty correct
\* answer; every generated Essay record has no options and no correct answer.
C3_RecordInvariant ==
    gen.phase = "done" =>
        \A i \in 1..Len(gen.questions) :
            LET q == gen.questions[i]
            IN  /\ q.q_type \in {"MC", "Essay"}
                /\ q.q_type = "MC" =>
                      /\ q.options # None /\ Len(The(q.options)) = 4
                      /\ q.correct_answer # None /\ The(q.correct_answer) # ""
                /\ q.q_type = "Essay" =>
                      /\ q.options = None
                      /\ q.correct_answer = None

C3_Witness ==
    /\ gen.phase = "done" /\ gen.total = 12 /\ gen.pct = 50
    /\ CountType(gen.questions, "MC") = 6
    /\ CountType(gen.questions, "Essay") = 6
    /\ gen.questions[4].correct_answer = Some("ever")

-----------------------------------------------------------------------------
(* Properties of create_pdf (SpecPdf) *)

\* C5: no question is split across pages: the question text and its options
\* line (MC) or blank space and rule (Essay) are on the same page.
C5_NoSplit ==
    \A i \in 1..Len(pdf.placed) : pdf.placed[i].text_page = pdf.placed[i].sub_page

\* C8 as stated: with a font and a non-empty list there is at least one page,
\* the page count never decreases as records are added, and it is greater than
\* 1 once the question blocks have pushed the cursor past the threshold.
C8_Original ==
    [][ /\ pdf'.page >= pdf.page
        /\ (run'.pc \in {"questions", "done"} /\ run'.ret \in {"running", "bytes"})
              => pdf'.page >= 1
        /\ (run'.pc = "questions" /\ Len(pdf'.placed) > 0 /\ pdf'.y > NearBottom)
              => pdf'.page > 1 ]_vars

\* C8 amended: with a font and a non-empty list there is at least one page,
\* the page count never decreases as records are added, and every block
\* (question text, options line) placed after the cursor has passed the
\* threshold lies on a page after the first, so the page count is above 1.
C8_Pages ==
    [][ /\ pdf'.page >= pdf.page
        /\ (run'.pc \in {"questions", "done"} /\ run'.ret \in {"running", "bytes"})
              => pdf'.page >= 1
        /\ \A i \in 1..Len(pdf'.placed) :
              LET e == pdf'.placed[i]
              IN  /\ e.cursor > NearBottom => (e.text_page > 1 /\ pdf'.page > 1)
                  /\ (e.q_type = "MC" /\ e.sub_cursor > NearBottom)
                        => (e.sub_page > 1 /\ pdf'.page > 1) ]_vars

C8_Witness ==
    /\ run.ret = "bytes" /\ Len(records) = 30 /\ pdf.page = 3
    /\ \E i \in 1..Len(pdf.placed) :
          pdf.placed[i].cursor > NearBottom /\ pdf.placed[i].text_page = 2

DocOrder == { <<"Init", "Init">>, <<"Init", "FontRegistered">>,
              <<"FontRegistered", "Page">>, <<"Page", "Page">>,
              <<"Page", "Finalized">> }

\* C9: the document goes Init -> FontRegistered -> Page(s) -> Finalized; every
\* page and every footer invocation happens with the font registered; after a
\* failed registration no page is created.
C9_Order ==
    [][ /\ <<pdf.state, pdf'.state>> \in DocOrder
        /\ pdf'.page > 0 => font_family_name \in pdf'.fonts
        /\ \A i \in 1..Len(pdf'.footers) : pdf'.footers[i] = font_family_name
        /\ run'.ret \in {"None", "raised"} => (pdf'.page = 0 /\ pdf'.state = "Init") ]_vars

C9_Witness ==
    /\ pdf.state = "Finalized" /\ pdf.page >= 2 /\ Len(pdf.footers) = pdf.page
    /\ font_family_name \in pdf.fonts

-----------------------------------------------------------------------------
(* Properties of main and download_font_if_missing (SpecApp) *)

ErrorShown(msgs) ==
    \E i \in 1..Len(msgs) : msgs[i] \in {"error_download_font", "error_font_file", "exception"}

\* C4: when the font cache file is absent, the system font is absent and the
\* fetch has failed, create_pdf produces no document, an error is shown to the
\* user and the download button is not offered.
C4_NoDocument ==
    (run.pc \in {"download", "idle"} /\ run.ret # "not_called"
        /\ ~fs.cache /\ ~fs.sysfont)
    => /\ run.ret \in {"None", "raised"}
       /\ pdf.page = 0 /\ pdf.state = "Init"
       /\ ErrorShown(run.msgs)
       /\ run.fetches # <<>> /\ run.fetches[Len(run.fetches)] = "fail"
       /\ ~run.download

C4_Witness ==
    /\ run.pc = "idle" /\ run.ret = "None" /\ ~fs.cache /\ ~fs.sysfont
    /\ session.generated_data # None
    /\ run.msgs[Len(run.msgs)] = "error_font_file"
    /\ ~run.download

\* C6 as stated: over any sequence of calls the cache file is written exactly
\* once, by the first call, and every later call short-circuits without copying
\* the system font or issuing a request.
C6_Original ==
    /\ prov.calls >= 1 => (prov.writes = 1 /\ prov.writer = 1)
    /\ prov.calls >= 2 =>
          (prov.last.found /\ ~prov.last.copied /\ ~prov.last.fetched /\ ~prov.last.wrote)

\* C6 amended: the cache file is written at most once, by the first call whose
\* copy or download succeeds (a call in which both fail writes nothing, and the
\* next call tries again); every call that finds the file short-circuits
\* without copying, fetching or writing.
C6_Idempotent ==
    /\ prov.writes <= 1
    /\ (prov.writes = 1) = fs.cache
    /\ (prov.writes = 1) = (prov.writer # 0)
    /\ prov.last.found => (~prov.last.copied /\ ~prov.last.fetched /\ ~prov.last.wrote)
    /\ (prov.calls >= 1 /\ ~prov.last.found /\ ~prov.last.wrote) => ~fs.cache

C6_Witness ==
    /\ prov.calls = 3 /\ prov.writer = 2 /\ prov.writes = 1
    /\ prov.last.found /\ ~prov.last.fetched /\ ~prov.last.copied
    /\ fs.cache /\ run.pc = "button"

\* C7: within one run of main (create_pdf included) no fetch is issued after a
\* fetch has failed.
C7_NoRetry ==
    \A i \in 1..Len(run.fetches) : i < Len(run.fetches) => run.fetches[i] # "fail"

\* C10: whenever the session holds generated_data it holds a config whose count
\* is the number of generated records, and the score per question of the run
\* is 100 / that number, whatever the sidebar shows now.
C10_ConfigMatchesData ==
    session.generated_data # None =>
        /\ session.config # None
        /\ The(session.config).count = Len(The(session.generated_data))
        /\ run.score # None =>
              The(run.score) = <<100, Len(The(session.generated_data))>>
        /\ run.pc \in {"pdf_font", "pdf_add_font", "download"} =>
              (run.score # None /\ records = The(session.generated_data))

C10_Witness ==
    /\ session.generated_data # None
    /\ Len(The(session.generated_data)) = 30
    /\ duration_options[sidebar.duration] = 70
    /\ run.pc = "download" /\ ~run.button
    /\ run.score = Some(<<100, 30>>)
    /\ Len(pdf.placed) = 30

====
